---- MODULE Spec2Model ----
(***************************************************************************)
(* Model of task_manager.py: an in-memory list of task dicts, loaded once  *)
(* from tasks.json, mutated by the menu handlers and re-saved in full      *)
(* after every successful mutation.                                        *)
(*                                                                         *)
(* A Python str is a sequence of one-character strings, so that strip(),   *)
(* lower(), capitalize(), str(int), substring search, string comparison    *)
(* and strptime are computed character by character as the code does.      *)
(* A task dict is a record; a dict without the 'priority' key is a record  *)
(* without the priority field.                                             *)
(***************************************************************************)
EXTENDS Integers, Sequences, FiniteSets, TLC

(***************************************************************************)
(* Bounds of the model.                                                    *)
(***************************************************************************)
\* add_task is not offered once the list holds this many tasks
MaxTasks == 2

\* longest stored collection the query handlers are run on in QuerySpec
MaxLoaded == 3

(***************************************************************************)
(* Characters and Python str primitives.                                   *)
(***************************************************************************)
Digits == <<"0", "1", "2", "3", "4", "5", "6", "7", "8", "9">>

UpperCase == <<"A", "B", "C", "D", "E", "F", "G", "H", "I", "J", "K", "L", "M",
               "N", "O", "P", "Q", "R", "S", "T", "U", "V", "W", "X", "Y", "Z">>

LowerCase == <<"a", "b", "c", "d", "e", "f", "g", "h", "i", "j", "k", "l", "m",
               "n", "o", "p", "q", "r", "s", "t", "u", "v", "w", "x", "y", "z">>

IsIn(c, cs) == \E i \in 1..Len(cs) : cs[i] = c

IndexIn(c, cs) == CHOOSE i \in 1..Len(cs) : cs[i] = c

\* the characters that occur in the inputs and in the stored strings
Chars ==
  {Digits[i] : i \in 1..10} \cup {UpperCase[i] : i \in 1..26}
  \cup {LowerCase[i] : i \in 1..26} \cup {" ", "-", "/"}

\* code point of each character (ASCII), the order Python compares str by
CodePoint ==
  [c \in Chars |->
     IF IsIn(c, Digits) THEN 47 + IndexIn(c, Digits)
     ELSE IF IsIn(c, UpperCase) THEN 64 + IndexIn(c, UpperCase)
     ELSE IF IsIn(c, LowerCase) THEN 96 + IndexIn(c, LowerCase)
     ELSE IF c = " " THEN 32
     ELSE IF c = "-" THEN 45
     ELSE 47]

Ord(c) == CodePoint[c]

IsDigit(c) == Ord(c) >= 48 /\ Ord(c) <= 57

DigitVal(c) == Ord(c) - 48

LowerOf ==
  [c \in Chars |-> IF IsIn(c, UpperCase) THEN LowerCase[IndexIn(c, UpperCase)] ELSE c]

UpperOf ==
  [c \in Chars |-> IF IsIn(c, LowerCase) THEN UpperCase[IndexIn(c, LowerCase)] ELSE c]

ToLower(c) == LowerOf[c]

ToUpper(c) == UpperOf[c]

\* str.lower()
lower(s) == [i \in 1..Len(s) |-> ToLower(s[i])]

\* str.capitalize(): first character upper-cased, the rest lower-cased
capitalize(s) == [i \in 1..Len(s) |-> IF i = 1 THEN ToUpper(s[i]) ELSE ToLower(s[i])]

RECURSIVE lstrip(_)
lstrip(s) == IF s # <<>> /\ Head(s) = " " THEN lstrip(Tail(s)) ELSE s

RECURSIVE rstrip(_)
rstrip(s) ==
  IF s # <<>> /\ s[Len(s)] = " " THEN rstrip(SubSeq(s, 1, Len(s) - 1)) ELSE s

\* str.strip()
strip(s) == rstrip(lstrip(s))

\* Python's  kw in s  on two str
Contains(kw, s) ==
  \E i \in 0..(Len(s) - Len(kw)) : SubSeq(s, i + 1, i + Len(kw)) = kw

\* Python's  a < b  on two str: lexicographic by code point
StrLess(a, b) ==
  \E k \in 1..Len(b) :
    /\ k <= Len(a) + 1
    /\ \A j \in 1..(k - 1) : a[j] = b[j]
    /\ (k = Len(a) + 1 \/ Ord(a[k]) < Ord(b[k]))

\* str(n) for a positive int: its decimal digits
RECURSIVE str(_)
str(n) ==
  IF n < 10 THEN <<Digits[n + 1]>>
  ELSE Append(str(n \div 10), Digits[(n % 10) + 1])

(***************************************************************************)
(* Module constants of task_manager.py.                                    *)
(***************************************************************************)
Low == <<"L", "o", "w">>

Medium == <<"M", "e", "d", "i", "u", "m">>

High == <<"H", "i", "g", "h">>

Pending == <<"P", "e", "n", "d", "i", "n", "g">>

Completed == <<"C", "o", "m", "p", "l", "e", "t", "e", "d">>

PRIORITY_LEVELS == {Low, Medium, High}

STATUS_OPTIONS == {Pending, Completed}

(***************************************************************************)
(* datetime.strptime(date_str, '%Y-%m-%d').                                *)
(* The format compiles to the regular expression                           *)
(*   (\d\d\d\d)-(1[0-2]|0[1-9]|[1-9])-(3[01]|[12]\d|0[1-9]|[1-9]| [1-9])   *)
(* which must match the whole string; the fields are then handed to the    *)
(* date constructor, which rejects year 0 and days past the month's end.   *)
(***************************************************************************)
IsNonZeroDigit(c) == IsDigit(c) /\ c # "0"

\* the %m alternatives
MonthToken(m) ==
  \/ Len(m) = 2 /\ m[1] = "1" /\ m[2] \in {"0", "1", "2"}
  \/ Len(m) = 2 /\ m[1] = "0" /\ IsNonZeroDigit(m[2])
  \/ Len(m) = 1 /\ IsNonZeroDigit(m[1])

\* the %d alternatives
DayToken(d) ==
  \/ Len(d) = 2 /\ d[1] = "3" /\ d[2] \in {"0", "1"}
  \/ Len(d) = 2 /\ d[1] \in {"1", "2"} /\ IsDigit(d[2])
  \/ Len(d) = 2 /\ d[1] = "0" /\ IsNonZeroDigit(d[2])
  \/ Len(d) = 1 /\ IsNonZeroDigit(d[1])
  \/ Len(d) = 2 /\ d[1] = " " /\ IsNonZeroDigit(d[2])

RECURSIVE ToInt(_)
ToInt(s) ==
  IF s = <<>> THEN 0
  ELSE 10 * ToInt(SubSeq(s, 1, Len(s) - 1)) + DigitVal(s[Len(s)])

\* position of the second '-' of s, 0 when there is none after position 6
SecondDash(s) ==
  IF Len(s) >= 7 /\ s[7] = "-" THEN 7
  ELSE IF Len(s) >= 8 /\ s[8] = "-" THEN 8
  ELSE 0

\* does the regular expression match the whole of s
MatchesFormat(s) ==
  /\ Len(s) >= 8
  /\ \A i \in 1..4 : IsDigit(s[i])
  /\ s[5] = "-"
  /\ SecondDash(s) # 0
  /\ MonthToken(SubSeq(s, 6, SecondDash(s) - 1))
  /\ DayToken(SubSeq(s, SecondDash(s) + 1, Len(s)))

\* the (year, month, day) strptime extracts from a matching string
ParseDate(s) ==
  [year  |-> ToInt(SubSeq(s, 1, 4)),
   month |-> ToInt(SubSeq(s, 6, SecondDash(s) - 1)),
   day   |-> ToInt(lstrip(SubSeq(s, SecondDash(s) + 1, Len(s))))]

IsLeap(y) == (y % 4 = 0 /\ y % 100 # 0) \/ y % 400 = 0

DaysInMonth(y, m) ==
  IF m = 2 THEN (IF IsLeap(y) THEN 29 ELSE 28)
  ELSE IF m \in {4, 6, 9, 11} THEN 30
  ELSE 31

\* validate_date: True iff strptime raises no ValueError
validate_date(date_str) ==
  /\ MatchesFormat(date_str)
  /\ LET d == ParseDate(date_str)
     IN  /\ d.year >= 1
         /\ d.day <= DaysInMonth(d.year, d.month)

\* the calendar date of an accepted string, as a day-ordered number
Chrono(s) ==
  LET d == ParseDate(s) IN d.year * 10000 + d.month * 100 + d.day

(***************************************************************************)
(* Task dicts.                                                             *)
(***************************************************************************)
\* dict item assignment  t[k] = v  (adds the key when it is absent)
SetItem(t, k, v) == (k :> v) @@ t

\* t.get('priority', 'Medium')
GetPriority(t) == IF "priority" \in DOMAIN t THEN t.priority ELSE Medium

\* index of the first task whose id is task_id, 0 when the scan finds none
FindFirst(ts, task_id) ==
  IF \E i \in 1..Len(ts) : ts[i].id = task_id
  THEN CHOOSE i \in 1..Len(ts) :
         ts[i].id = task_id /\ \A j \in 1..(i - 1) : ts[j].id # task_id
  ELSE 0

RECURSIVE FirstFreeId(_, _)
FirstFreeId(existing_ids, new_id) ==
  IF str(new_id) \in existing_ids
  THEN FirstFreeId(existing_ids, new_id + 1)
  ELSE str(new_id)

\* faulty variant: the id is the number of tasks plus one
generate_task_id_count(ts) == str(Len(ts) + 1)

\* faulty variant: the search for a free id starts above the number of tasks
generate_task_id_skip(ts) ==
  FirstFreeId({ts[i].id : i \in 1..Len(ts)}, Len(ts) + 1)

generate_task_id(ts) == FirstFreeId({ts[i].id : i \in 1..Len(ts)}, 1)

\* faulty variant: the last element is not written
save_tasks_truncated(ts) ==
  [kind |-> "list", items |-> SubSeq(ts, 1, Len(ts) - 1)]

\* content of tasks.json after json.dump(tasks, f)
save_tasks(ts) == [kind |-> "list", items |-> ts]

\* value returned by load_tasks for a given tasks.json: its Python type and,
\* for a list, its elements
load_tasks(f) ==
  IF f.kind = "absent" THEN [type |-> "list", items |-> <<>>]
  ELSE IF f.kind = "invalid" THEN [type |-> "list", items |-> <<>>]
  ELSE IF f.kind = "list" THEN [type |-> "list", items |-> f.items]
  ELSE [type |-> f.kind, items |-> <<>>]

(***************************************************************************)
(* Pure parts of the handlers.                                             *)
(***************************************************************************)
\* the dict add_task builds and appends
NewTask(ts, title, description, due_date, priority) ==
  [id          |-> generate_task_id(ts),
   title       |-> title,
   description |-> description,
   due_date    |-> due_date,
   status      |-> Pending,
   priority    |-> priority]

\* faulty variant: the description is assigned even when the answer is blank
UpdatedTask_overwrite(t, desc, due, status, priority) ==
  LET t1 == [t EXCEPT !.description = desc]
      t2 == IF due # <<>> THEN [t1 EXCEPT !.due_date = due] ELSE t1
      t3 == IF status \in STATUS_OPTIONS THEN [t2 EXCEPT !.status = status] ELSE t2
  IN  IF priority \in PRIORITY_LEVELS THEN SetItem(t3, "priority", priority) ELSE t3

\* faulty variant: an answer that is no status resets the status to Pending
UpdatedTask_reset_status(t, desc, due, status, priority) ==
  LET t1 == IF desc # <<>> THEN [t EXCEPT !.description = desc] ELSE t
      t2 == IF due # <<>> THEN [t1 EXCEPT !.due_date = due] ELSE t1
      t3 == [t2 EXCEPT !.status = IF status \in STATUS_OPTIONS THEN status ELSE Pending]
  IN  IF priority \in PRIORITY_LEVELS THEN SetItem(t3, "priority", priority) ELSE t3

\* faulty variant: every non-blank status answer is stored
UpdatedTask_any_status(t, desc, due, status, priority) ==
  LET t1 == IF desc # <<>> THEN [t EXCEPT !.description = desc] ELSE t
      t2 == IF due # <<>> THEN [t1 EXCEPT !.due_date = due] ELSE t1
      t3 == IF status # <<>> THEN [t2 EXCEPT !.status = status] ELSE t2
  IN  IF priority \in PRIORITY_LEVELS THEN SetItem(t3, "priority", priority) ELSE t3

\* faulty variant: the new description is assigned to the title
UpdatedTask_retitle(t, desc, due, status, priority) ==
  LET t1 == IF desc # <<>> THEN [t EXCEPT !.title = desc] ELSE t
      t2 == IF due # <<>> THEN [t1 EXCEPT !.due_date = due] ELSE t1
      t3 == IF status \in STATUS_OPTIONS THEN [t2 EXCEPT !.status = status] ELSE t2
  IN  IF priority \in PRIORITY_LEVELS THEN SetItem(t3, "priority", priority) ELSE t3

\* the in-place edits update_task makes to the task it found; due is the
\* value that ended the date loop (blank or an accepted date)
UpdatedTask(t, desc, due, status, priority) ==
  LET t1 == IF desc # <<>> THEN [t EXCEPT !.description = desc] ELSE t
      t2 == IF due # <<>> THEN [t1 EXCEPT !.due_date = due] ELSE t1
      t3 == IF status \in STATUS_OPTIONS THEN [t2 EXCEPT !.status = status] ELSE t2
  IN  IF priority \in PRIORITY_LEVELS THEN SetItem(t3, "priority", priority) ELSE t3

\* faulty variant: pop() without the index removes the last element
Pop_last(ts, i) == SubSeq(ts, 1, Len(ts) - 1)

\* tasks.pop(i)
Pop(ts, i) == SubSeq(ts, 1, i - 1) \o SubSeq(ts, i + 1, Len(ts))

\* [t for t in ts if keep(t)], for the set of kept positions
RECURSIVE Select(_, _)
Select(ts, keep) ==
  IF ts = <<>> THEN <<>>
  ELSE LET rest == Select(SubSeq(ts, 1, Len(ts) - 1), keep)
       IN  IF Len(ts) \in keep THEN Append(rest, ts[Len(ts)]) ELSE rest

\* faulty variant: title and description are not lower-cased
Search_case_sensitive(ts, keyword) ==
  Select(ts, {i \in 1..Len(ts) :
                \/ Contains(keyword, ts[i].title)
                \/ Contains(keyword, ts[i].description)})

\* search_tasks: keyword is the stripped, lower-cased input
Search(ts, keyword) ==
  Select(ts, {i \in 1..Len(ts) :
                \/ Contains(keyword, lower(ts[i].title))
                \/ Contains(keyword, lower(ts[i].description))})

FilterStatus(ts, status) == Select(ts, {i \in 1..Len(ts) : ts[i].status = status})

\* faulty variant: a task without the priority key matches no priority
FilterPriority_strict(ts, pr) ==
  Select(ts, {i \in 1..Len(ts) : "priority" \in DOMAIN ts[i] /\ ts[i].priority = pr})

FilterPriority(ts, pr) == Select(ts, {i \in 1..Len(ts) : GetPriority(ts[i]) = pr})

\* faulty variant: pending is counted against a misspelt status
Summary_misspelt(ts) ==
  [total     |-> Len(ts),
   pending   |-> Cardinality({i \in 1..Len(ts) : ts[i].status = lower(Pending)}),
   completed |-> Cardinality({i \in 1..Len(ts) : ts[i].status = Completed})]

\* task_summary
Summary(ts) ==
  [total     |-> Len(ts),
   pending   |-> Cardinality({i \in 1..Len(ts) : ts[i].status = Pending}),
   completed |-> Cardinality({i \in 1..Len(ts) : ts[i].status = Completed})]

\* faulty variant: t goes before the elements whose key equals its own
InsertByDueDate_unstable(s, t) ==
  LET n == Cardinality({i \in 1..Len(s) : StrLess(s[i].due_date, t.due_date)})
  IN  SubSeq(s, 1, n) \o <<t>> \o SubSeq(s, n + 1, Len(s))

\* one step of a stable sort by due_date: t goes after every element whose
\* key is not greater than its own
InsertByDueDate(s, t) ==
  LET n == Cardinality({i \in 1..Len(s) : ~StrLess(t.due_date, s[i].due_date)})
  IN  SubSeq(s, 1, n) \o <<t>> \o SubSeq(s, n + 1, Len(s))

\* sorted(tasks, key=lambda t: t['due_date'])
RECURSIVE sorted(_)
sorted(ts) ==
  IF ts = <<>> THEN <<>>
  ELSE InsertByDueDate(sorted(SubSeq(ts, 1, Len(ts) - 1)), ts[Len(ts)])

\* the rows print_table and export_to_csv render: priority is defaulted
Rows(ts) == [i \in 1..Len(ts) |-> SetItem(ts[i], "priority", GetPriority(ts[i]))]

(***************************************************************************)
(* What the user types and what tasks.json holds at start-up.              *)
(***************************************************************************)
D_Oct == <<"2", "0", "2", "4", "-", "1", "0", "-", "0", "1">>

D_Sep == <<"2", "0", "2", "4", "-", "9", "-", "0", "1">>

D_Feb30 == <<"2", "0", "2", "4", "-", "0", "2", "-", "3", "0">>

D_Slash == <<"0", "1", "/", "0", "9", "/", "2", "0", "2", "4">>

Blank == <<>>

Space == <<" ">>

\* what the user answers to the prompts of one add_task call; due and
\* priority are the successive answers to a prompt that is repeated until
\* an answer is accepted
AddInputs ==
  {[title       |-> <<" ", "A", "b">>,
    description |-> Blank,
    due         |-> <<D_Sep>>,
    priority    |-> <<<<"l", "o", "w">>>>],
   [title       |-> <<"A", "b">>,
    description |-> <<" ", "b">>,
    due         |-> <<D_Feb30, D_Slash, D_Oct>>,
    priority    |-> <<<<"u", "r", "g", "e", "n", "t">>, <<"H", "I", "G", "H">>>>]}

IdInputs == {<<"1">>, <<" ", "2", " ">>, <<"3">>, <<"7">>}

\* what the user answers to the prompts of one update_task call, after the id
UpdateInputs ==
  {[description |-> Space,
    due         |-> <<Blank>>,
    status      |-> Blank,
    priority    |-> Space],
   [description |-> <<"b">>,
    due         |-> <<D_Feb30, D_Oct>>,
    status      |-> <<"d", "o", "n", "e">>,
    priority    |-> <<"h", "i", "g", "h">>],
   [description |-> Blank,
    due         |-> <<D_Slash, Space>>,
    status      |-> <<"C", "O", "M", "P", "L", "E", "T", "E", "D">>,
    priority    |-> <<"u", "r", "g", "e", "n", "t">>],
   [description |-> Blank,
    due         |-> <<Blank>>,
    status      |-> <<"p", "e", "n", "d", "i", "n", "g">>,
    priority    |-> Blank]}

KeywordInputs == {Blank, <<"B">>, <<"z">>}

\* the filter option and, for option 3, the priority asked for
FilterInputs ==
  {[choice |-> <<"1">>, pr |-> Blank],
   [choice |-> <<" ", "2">>, pr |-> Blank],
   [choice |-> <<"3">>, pr |-> <<"l", "o", "w">>],
   [choice |-> <<"3">>, pr |-> <<"m", "e", "d", "i", "u", "m">>],
   [choice |-> <<"3">>, pr |-> <<"H", "I", "G", "H">>],
   [choice |-> <<"3">>, pr |-> <<"x">>],
   [choice |-> <<"4">>, pr |-> Blank]}

\* a stored collection whose only task has id "2" and no 'priority' key
StoredGap ==
  << [id |-> <<"2">>, title |-> <<"A", "b">>, description |-> <<"b">>,
      due_date |-> D_Oct, status |-> Completed] >>

\* a stored collection in which two tasks carry the same id
StoredDup ==
  << [id |-> <<"1">>, title |-> <<"A", "b">>, description |-> Blank,
      due_date |-> D_Sep, status |-> Pending, priority |-> Low],
     [id |-> <<"1">>, title |-> <<"A", "b">>, description |-> <<"b">>,
      due_date |-> D_Oct, status |-> Pending, priority |-> High] >>

\* tasks.json before the program starts: missing, not JSON, a JSON object,
\* a JSON number, or a JSON list of task objects
InitialFiles ==
  {[kind |-> "absent", items |-> <<>>],
   [kind |-> "invalid", items |-> <<>>],
   [kind |-> "dict", items |-> <<>>],
   [kind |-> "int", items |-> <<>>],
   [kind |-> "list", items |-> <<>>],
   [kind |-> "list", items |-> StoredGap],
   [kind |-> "list", items |-> StoredDup]}

(***************************************************************************)
(* State.                                                                  *)
(***************************************************************************)
\* tasks       the elements of main's  tasks  when it is a list
\* tasks_type  the Python type of main's  tasks : "list", "dict" or "int"
\* file        tasks.json
\* pc          "start" before load_tasks, then "menu", "exit" or "crashed"
\* last        what the last handler read and printed, and whether it saved
VARIABLES tasks, tasks_type, file, pc, last

vars == <<tasks, tasks_type, file, pc, last>>

Out(op, arg, msg, saved) == [op |-> op, arg |-> arg, msg |-> msg, saved |-> saved]

Init ==
  /\ tasks = <<>>
  /\ tasks_type = "list"
  /\ file \in InitialFiles
  /\ pc = "start"
  /\ last = Out("none", Blank, "", FALSE)

\* the first answer the add_task date loop accepts
AddDue(attempts) ==
  strip(attempts[CHOOSE i \in 1..Len(attempts) :
                   /\ validate_date(strip(attempts[i]))
                   /\ \A j \in 1..(i - 1) : ~validate_date(strip(attempts[j]))])

\* the first answer the add_task priority loop accepts
AddPriority(attempts) ==
  capitalize(strip(attempts[CHOOSE i \in 1..Len(attempts) :
      /\ capitalize(strip(attempts[i])) \in PRIORITY_LEVELS
      /\ \A j \in 1..(i - 1) : capitalize(strip(attempts[j])) \notin PRIORITY_LEVELS]))

\* faulty variant: the first answer is taken without validating it
UpdateDue_unchecked(attempts) == strip(attempts[1])

\* the answer that ends the update_task date loop: blank or an accepted date
UpdateDue(attempts) ==
  LET Ends(a) == strip(a) = Blank \/ validate_date(strip(a))
  IN  strip(attempts[CHOOSE i \in 1..Len(attempts) :
                       Ends(attempts[i]) /\ \A j \in 1..(i - 1) : ~Ends(attempts[j])])

(***************************************************************************)
(* main: tasks = load_tasks()                                              *)
(***************************************************************************)
Load ==
  /\ pc = "start"
  /\ tasks' = load_tasks(file).items
  /\ tasks_type' = load_tasks(file).type
  /\ pc' = "menu"
  /\ last' = Out("load", Blank, "", FALSE)
  /\ UNCHANGED file

InMenu == pc = "menu" /\ tasks_type = "list"

(***************************************************************************)
(* The mutating handlers.                                                  *)
(***************************************************************************)
add_task(title_in, description_in, due_attempts, priority_attempts) ==
  /\ InMenu
  /\ Len(tasks) < MaxTasks
  /\ \E i \in 1..Len(due_attempts) : validate_date(strip(due_attempts[i]))
  /\ \E i \in 1..Len(priority_attempts) :
       capitalize(strip(priority_attempts[i])) \in PRIORITY_LEVELS
  /\ LET task == NewTask(tasks, strip(title_in), strip(description_in),
                         AddDue(due_attempts), AddPriority(priority_attempts))
     IN  /\ tasks' = Append(tasks, task)
         /\ file' = save_tasks(tasks')
         /\ last' = Out("add", task.id, "Task added successfully!", TRUE)
  /\ UNCHANGED <<tasks_type, pc>>

update_task(id_in, desc_in, due_attempts, status_in, priority_in) ==
  /\ InMenu
  /\ \E i \in 1..Len(due_attempts) :
       strip(due_attempts[i]) = Blank \/ validate_date(strip(due_attempts[i]))
  /\ LET task_id == strip(id_in)
         i == FindFirst(tasks, task_id)
         desc == strip(desc_in)
         due == UpdateDue(due_attempts)
         status == capitalize(strip(status_in))
         priority == capitalize(strip(priority_in))
     IN  IF i # 0
         THEN /\ tasks' = [tasks EXCEPT ![i] =
                             UpdatedTask(tasks[i], desc, due, status, priority)]
              /\ file' = save_tasks(tasks')
              /\ last' = ("blank" :> (desc = Blank /\ due = Blank
                                      /\ status = Blank /\ priority = Blank))
                         @@ Out("update", task_id, "Task updated successfully!", TRUE)
         ELSE /\ last' = Out("update", task_id, "Task ID not found.", FALSE)
              /\ UNCHANGED <<tasks, file>>
  /\ UNCHANGED <<tasks_type, pc>>

\* faulty variant: the status is toggled instead of set
mark_completed_toggle(id_in) ==
  /\ InMenu
  /\ LET task_id == strip(id_in)
         i == FindFirst(tasks, task_id)
     IN  IF i # 0
         THEN /\ tasks' = [tasks EXCEPT ![i].status =
                             IF @ = Completed THEN Pending ELSE Completed]
              /\ file' = save_tasks(tasks')
              /\ last' = Out("complete", task_id, "Task marked as completed!", TRUE)
         ELSE /\ last' = Out("complete", task_id, "Task ID not found.", FALSE)
              /\ UNCHANGED <<tasks, file>>
  /\ UNCHANGED <<tasks_type, pc>>

\* faulty variant: the scan marks every task once it has found the id
mark_completed_all(id_in) ==
  /\ InMenu
  /\ LET task_id == strip(id_in)
         i == FindFirst(tasks, task_id)
     IN  IF i # 0
         THEN /\ tasks' = [j \in 1..Len(tasks) |-> [tasks[j] EXCEPT !.status = Completed]]
              /\ file' = save_tasks(tasks')
              /\ last' = Out("complete", task_id, "Task marked as completed!", TRUE)
         ELSE /\ last' = Out("complete", task_id, "Task ID not found.", FALSE)
              /\ UNCHANGED <<tasks, file>>
  /\ UNCHANGED <<tasks_type, pc>>

mark_completed(id_in) ==
  /\ InMenu
  /\ LET task_id == strip(id_in)
         i == FindFirst(tasks, task_id)
     IN  IF i # 0
         THEN /\ tasks' = [tasks EXCEPT ![i].status = Completed]
              /\ file' = save_tasks(tasks')
              /\ last' = Out("complete", task_id, "Task marked as completed!", TRUE)
         ELSE /\ last' = Out("complete", task_id, "Task ID not found.", FALSE)
              /\ UNCHANGED <<tasks, file>>
  /\ UNCHANGED <<tasks_type, pc>>

\* faulty variant: the list is written back also when the scan found nothing
delete_task_always_saves(id_in) ==
  /\ InMenu
  /\ LET task_id == strip(id_in)
         i == FindFirst(tasks, task_id)
     IN  IF i # 0
         THEN /\ tasks' = Pop(tasks, i)
              /\ file' = save_tasks(tasks')
              /\ last' = Out("delete", task_id, "Task deleted successfully!", TRUE)
         ELSE /\ file' = save_tasks(tasks)
              /\ last' = Out("delete", task_id, "Task ID not found.", TRUE)
              /\ UNCHANGED tasks
  /\ UNCHANGED <<tasks_type, pc>>

delete_task(id_in) ==
  /\ InMenu
  /\ LET task_id == strip(id_in)
         i == FindFirst(tasks, task_id)
     IN  IF i # 0
         THEN /\ tasks' = Pop(tasks, i)
              /\ file' = save_tasks(tasks')
              /\ last' = Out("delete", task_id, "Task deleted successfully!", TRUE)
         ELSE /\ last' = Out("delete", task_id, "Task ID not found.", FALSE)
              /\ UNCHANGED <<tasks, file>>
  /\ UNCHANGED <<tasks_type, pc>>

(***************************************************************************)
(* The query handlers.  print_table(ts) prints the rows of ts, or a        *)
(* message when ts is empty.                                               *)
(***************************************************************************)
Printed(op, arg, ts) ==
  ("shown" :> ts)
  @@ Out(op, arg, IF ts = <<>> THEN "No tasks to display." ELSE "", FALSE)

view_tasks ==
  /\ InMenu
  /\ last' = Printed("view", Blank, tasks)
  /\ UNCHANGED <<tasks, tasks_type, file, pc>>

search_tasks(keyword_in) ==
  /\ InMenu
  /\ LET keyword == lower(strip(keyword_in))
     IN  last' = Printed("search", keyword, Search(tasks, keyword))
  /\ UNCHANGED <<tasks, tasks_type, file, pc>>

filter_tasks(choice_in, pr_in) ==
  /\ pc = "menu"
  /\ LET choice == strip(choice_in)
         pr == capitalize(strip(pr_in))
     IN  IF choice = <<"1">>
         THEN /\ tasks_type = "list"
              /\ last' = Printed("filter", Pending, FilterStatus(tasks, Pending))
         ELSE IF choice = <<"2">>
         THEN /\ tasks_type = "list"
              /\ last' = Printed("filter", Completed, FilterStatus(tasks, Completed))
         ELSE IF choice = <<"3">>
         THEN IF pr \in PRIORITY_LEVELS
              THEN /\ tasks_type = "list"
                   /\ last' = Printed("filter", pr, FilterPriority(tasks, pr))
              ELSE last' = Out("filter", pr, "Invalid priority.", FALSE)
         ELSE last' = Out("filter", choice, "Invalid option.", FALSE)
  /\ UNCHANGED <<tasks, tasks_type, file, pc>>

task_summary ==
  /\ InMenu
  /\ last' = ("counts" :> Summary(tasks)) @@ Out("summary", Blank, "", FALSE)
  /\ UNCHANGED <<tasks, tasks_type, file, pc>>

\* faulty variant: tasks.sort(...) reorders the list itself
sort_tasks_in_place ==
  /\ InMenu
  /\ tasks' = sorted(tasks)
  /\ last' = Printed("sort", Blank, tasks')
  /\ UNCHANGED <<tasks_type, file, pc>>

sort_tasks ==
  /\ InMenu
  /\ last' = Printed("sort", Blank, sorted(tasks))
  /\ UNCHANGED <<tasks, tasks_type, file, pc>>

export_to_csv ==
  /\ InMenu
  /\ last' = ("shown" :> Rows(tasks))
             @@ Out("export", Blank, "Tasks exported to tasks_export.csv", FALSE)
  /\ UNCHANGED <<tasks, tasks_type, file, pc>>

(***************************************************************************)
(* The rest of main's loop.                                                *)
(***************************************************************************)
\* a handler that iterates over  tasks  when load_tasks returned a dict or
\* an int: the TypeError leaves main
TypeErrorRaised ==
  /\ pc = "menu"
  /\ tasks_type # "list"
  /\ pc' = "crashed"
  /\ last' = Out("error", Blank, "TypeError", FALSE)
  /\ UNCHANGED <<tasks, tasks_type, file>>

InvalidOption ==
  /\ pc = "menu"
  /\ last' = Out("invalid", Blank,
                 "Invalid option. Please enter a number from 1 to 11.", FALSE)
  /\ UNCHANGED <<tasks, tasks_type, file, pc>>

Exit ==
  /\ pc = "menu"
  /\ pc' = "exit"
  /\ last' = Out("exit", Blank, "Goodbye!", FALSE)
  /\ UNCHANGED <<tasks, tasks_type, file>>

Next ==
  \/ Load
  \/ \E in \in AddInputs : add_task(in.title, in.description, in.due, in.priority)
  \/ view_tasks
  \/ \E id_in \in IdInputs, in \in UpdateInputs :
       update_task(id_in, in.description, in.due, in.status, in.priority)
  \/ \E id_in \in IdInputs : mark_completed(id_in)
  \/ \E id_in \in IdInputs : delete_task(id_in)
  \/ \E keyword_in \in KeywordInputs : search_tasks(keyword_in)
  \/ \E in \in FilterInputs : filter_tasks(in.choice, in.pr)
  \/ task_summary
  \/ sort_tasks
  \/ export_to_csv
  \/ TypeErrorRaised
  \/ InvalidOption
  \/ Exit

Spec == Init /\ [][Next]_vars

(***************************************************************************)
(* The query handlers on an arbitrary stored collection: the state right   *)
(* after main loaded a tasks.json holding a list of task objects.          *)
(***************************************************************************)
LoadableTasks ==
  {[id |-> <<"1">>, title |-> <<"A", "b">>, description |-> Blank,
    due_date |-> D_Sep, status |-> Pending, priority |-> Low],
   [id |-> <<"2">>, title |-> <<"A", "b">>, description |-> <<"b">>,
    due_date |-> D_Oct, status |-> Completed, priority |-> High],
   [id |-> <<"3">>, title |-> <<"C", "d">>, description |-> <<"a", "B", "c">>,
    due_date |-> D_Oct, status |-> Pending],
   [id |-> <<"4">>, title |-> <<"C", "d">>, description |-> Blank,
    due_date |-> <<"2", "0", "2", "4", "-", "0", "9", "-", "1", "5">>,
    status |-> Completed, priority |-> Medium]}

InitLoaded ==
  /\ tasks \in UNION {[1..n -> LoadableTasks] : n \in 0..MaxLoaded}
  /\ tasks_type = "list"
  /\ file = save_tasks(tasks)
  /\ pc = "menu"
  /\ last = Out("load", Blank, "", FALSE)

NextQuery ==
  \/ view_tasks
  \/ \E keyword_in \in KeywordInputs : search_tasks(keyword_in)
  \/ \E in \in FilterInputs : filter_tasks(in.choice, in.pr)
  \/ task_summary
  \/ sort_tasks
  \/ export_to_csv

QuerySpec == InitLoaded /\ [][NextQuery]_vars

(***************************************************************************)
(* Properties.                                                             *)
(***************************************************************************)
Ids(ts) == {ts[i].id : i \in 1..Len(ts)}

UniqueIds(ts) == \A i, j \in 1..Len(ts) : ts[i].id = ts[j].id => i = j

\* s is the decimal numeral of a positive integer, without leading zeros
IsNumeral(s) == s # <<>> /\ s[1] # "0" /\ \A i \in 1..Len(s) : IsDigit(s[i])

\* C1: a handler that starts on a list whose ids are pairwise distinct leaves
\* a list whose ids are pairwise distinct, so from such a store (the empty
\* one included) no sequence of add, update, complete and delete produces
\* two tasks with the same id.
C1_UniqueIdsPreserved ==
  [][(pc = "menu" /\ UniqueIds(tasks)) => UniqueIds(tasks')]_vars

\* an add that reused id "1" next to an older task with id "2"
C1_Witness ==
  /\ last.op = "add"
  /\ Len(tasks) = 2
  /\ tasks[1].id = <<"2">>
  /\ tasks[2].id = <<"1">>
  /\ UniqueIds(tasks)

\* C2: the id add_task gives the new task is the numeral of the smallest
\* positive integer n that is no task's id: the numeral is not an id of the
\* list the handler started on, and every smaller positive integer is.
C2_SmallestUnusedId ==
  [][last'.op = "add" =>
       LET new == tasks'[Len(tasks')].id
       IN  /\ Len(tasks') = Len(tasks) + 1
           /\ new = last'.arg
           /\ IsNumeral(new)
           /\ ToInt(new) >= 1
           /\ new \notin Ids(tasks)
           /\ \A m \in 1..(ToInt(new) - 1) :
                \E id \in Ids(tasks) : IsNumeral(id) /\ ToInt(id) = m]_vars

\* id "1", freed by a delete, is given to the next task although a task
\* created by an earlier add still holds id "2"
C2_Witness ==
  /\ last.op = "add"
  /\ last.arg = <<"1">>
  /\ Len(tasks) = 2
  /\ tasks[1].id = <<"2">>
  /\ "priority" \in DOMAIN tasks[1]
  /\ tasks[1].priority = Low

\* C3: when every stored due_date is one validate_date accepts, the list
\* sort_tasks prints never shows a later calendar date before an earlier one.
C3_SortIsChronological ==
  (/\ last.op = "sort"
   /\ \A i \in 1..Len(tasks) : validate_date(tasks[i].due_date))
  => \A i, j \in 1..Len(last.shown) :
       i < j => Chrono(last.shown[i].due_date) <= Chrono(last.shown[j].due_date)

\* C4: the list sort_tasks prints is a permutation of the list it was given,
\* its due_date strings never decrease, tasks with equal due_date keep their
\* relative order, and sorting it again gives the same list.
C4_SortStablePermutation ==
  last.op = "sort" =>
    LET out == last.shown
        n == Len(tasks)
    IN  /\ Len(out) = n
        /\ \E p \in [1..n -> 1..n] :
             /\ \A i, j \in 1..n : p[i] = p[j] => i = j
             /\ \A i \in 1..n : out[i] = tasks[p[i]]
             /\ \A i, j \in 1..n :
                  (i < j /\ out[i].due_date = out[j].due_date) => p[i] < p[j]
        /\ \A i, j \in 1..n : i < j => ~StrLess(out[j].due_date, out[i].due_date)
        /\ sorted(out) = out

\* a sort that had to move a task forward and had a tie between two
\* different tasks to keep in order
C4_Witness ==
  /\ last.op = "sort"
  /\ last.shown # tasks
  /\ \E i, j \in 1..Len(tasks) :
       i < j /\ tasks[i].due_date = tasks[j].due_date /\ tasks[i] # tasks[j]

\* C5: after every add, update, complete and delete that succeeded,
\* tasks.json holds the whole in-memory list as the handler left it.
C5_SavedAfterMutation ==
  (last.op \in {"add", "update", "complete", "delete"} /\ last.saved)
  => (file.kind = "list" /\ file.items = tasks)

\* an update that changed a task of a two-task list and was saved
C5_Witness ==
  /\ last.op = "update"
  /\ last.saved
  /\ ~last.blank
  /\ Len(tasks) = 2
  /\ file.items = tasks

\* the lists the query handlers would print for ts, over all their inputs
QueryResults(ts) ==
  {Search(ts, lower(strip(k))) : k \in KeywordInputs}
  \cup {FilterStatus(ts, st) : st \in STATUS_OPTIONS}
  \cup {FilterPriority(ts, pr) : pr \in PRIORITY_LEVELS}
  \cup {sorted(ts)}

\* C6: a delete that succeeds on a list with pairwise distinct ids leaves no
\* task with that id, so no search, filter or sort of the list shows one, and
\* the total task_summary counts is one less than before.
C6_DeleteRemovesId ==
  [][(last'.op = "delete" /\ last'.saved /\ UniqueIds(tasks)) =>
       /\ last'.arg \notin Ids(tasks')
       /\ \A r \in QueryResults(tasks') : last'.arg \notin Ids(r)
       /\ Summary(tasks').total = Summary(tasks).total - 1]_vars

\* a delete took one task out of a list and left another one in it
C6_Witness ==
  /\ last.op = "delete"
  /\ last.saved
  /\ tasks # <<>>
  /\ last.arg \notin Ids(tasks)

\* C7: a second mark_completed of the id just marked succeeds and leaves the
\* list and tasks.json as the first left them; on a task that is already
\* Completed the handler succeeds and changes neither.
C7_MarkCompletedIdempotent ==
  [][\A id_in \in IdInputs :
       (/\ mark_completed(id_in)
        /\ FindFirst(tasks, strip(id_in)) # 0
        /\ \/ last.op = "complete" /\ last.saved /\ last.arg = strip(id_in)
           \/ tasks[FindFirst(tasks, strip(id_in))].status = Completed)
       => (tasks' = tasks /\ file' = file /\ last'.saved)]_vars

\* a mark_completed of "1" succeeded: that task is Completed while a task
\* with another id is still Pending
C7_Witness ==
  /\ last.op = "complete"
  /\ last.saved
  /\ last.arg = <<"1">>
  /\ \E i \in 1..Len(tasks) : tasks[i].id = <<"1">> /\ tasks[i].status = Completed
  /\ \E i \in 1..Len(tasks) : tasks[i].id # <<"1">> /\ tasks[i].status = Pending

\* C8: an update_task of an existing id to which every answer after the id
\* is blank leaves the list, and with it tasks.json, unchanged.
C8_BlankUpdateIsIdentity ==
  [][(last'.op = "update" /\ last'.saved /\ last'.blank) =>
       (tasks' = tasks /\ file' = file)]_vars

\* an all-blank update of a task that has a description
C8_Witness ==
  /\ last.op = "update"
  /\ last.saved
  /\ last.blank
  /\ \E i \in 1..Len(tasks) :
       tasks[i].id = last.arg /\ tasks[i].description # Blank

\* C9: update_task, mark_completed and delete_task given an id no task has
\* print that the id was not found, leave the list unchanged and do not save.
C9_UnknownIdChangesNothing ==
  [][(last'.op \in {"update", "complete", "delete"} /\ last'.arg \notin Ids(tasks)) =>
       /\ last'.msg = "Task ID not found."
       /\ ~last'.saved
       /\ tasks' = tasks
       /\ file' = file]_vars

\* a delete of an unknown id on a non-empty list
C9_Witness ==
  /\ last.op = "delete"
  /\ last.msg = "Task ID not found."
  /\ tasks # <<>>
  /\ last.arg \notin Ids(tasks)

\* C10: when tasks.json is missing or does not hold a list of tasks,
\* load_tasks returns the empty list.
C10_LoadEmptyOnBadContent ==
  (last.op = "load" /\ file.kind # "list")
  => (tasks_type = "list" /\ tasks = <<>>)

\* every task has a status and a priority of the enumerations and a
\* due_date validate_date accepts
WellFormed(ts) ==
  \A i \in 1..Len(ts) :
    /\ ts[i].status \in {Pending, Completed}
    /\ "priority" \in DOMAIN ts[i]
    /\ ts[i].priority \in {Low, Medium, High}
    /\ validate_date(ts[i].due_date)

\* C11: the list loaded from a missing, unreadable or empty tasks.json is
\* empty, and a handler that starts on a list in which every status is
\* Pending or Completed, every priority Low, Medium or High and every due_date
\* valid leaves such a list; so an update never stores a rejected date.
C11_FieldsStayValid ==
  [][/\ (pc = "start" /\ (file.kind \in {"absent", "invalid"} \/ file.items = <<>>)
           => tasks' = <<>>)
     /\ (pc = "menu" /\ WellFormed(tasks)) => WellFormed(tasks')]_vars

\* an update whose first due-date answer was rejected and whose status answer
\* was not a status stored the accepted date and a valid priority
C11_Witness ==
  /\ last.op = "update"
  /\ last.saved
  /\ ~last.blank
  /\ WellFormed(tasks)
  /\ \E i \in 1..Len(tasks) :
       /\ tasks[i].id = last.arg
       /\ tasks[i].due_date = D_Oct
       /\ tasks[i].priority = High
       /\ tasks[i].status = Pending

\* C12: the counts task_summary prints satisfy total = pending + completed,
\* and total is the number of tasks in the list.
C12_SummaryAddsUp ==
  last.op = "summary" =>
    /\ last.counts.total = Len(tasks)
    /\ last.counts.total = last.counts.pending + last.counts.completed

\* a summary of a list that holds a Pending and a Completed task
C12_Witness ==
  /\ last.op = "summary"
  /\ last.counts.pending = 1
  /\ last.counts.completed = 1

\* the step is an update_task of the id task_id that found a task and in
\* which the status answer, once normalised, is Pending
IsUpdateToPending(task_id) ==
  \E id_in \in IdInputs, in \in UpdateInputs :
    /\ update_task(id_in, in.description, in.due, in.status, in.priority)
    /\ strip(id_in) = task_id
    /\ FindFirst(tasks, task_id) # 0
    /\ capitalize(strip(in.status)) = Pending

\* ts2 is ts1 with one element taken out
OneRemoved(ts1, ts2) ==
  /\ Len(ts2) = Len(ts1) - 1
  /\ \E k \in 1..Len(ts1) :
       \A j \in 1..Len(ts2) : ts2[j] = ts1[IF j < k THEN j ELSE j + 1]

\* C13: in a step of the menu loop a task that was Completed is Pending
\* afterwards only if the step is an update_task of its id with status answer
\* Pending; a delete leaves the remaining tasks as they were; the task an add
\* appends is Pending.
C13_OnlyUpdateReopens ==
  [][pc = "menu" =>
       /\ last'.op = "delete" /\ last'.saved => OneRemoved(tasks, tasks')
       /\ ~(last'.op = "delete" /\ last'.saved) =>
            /\ Len(tasks') >= Len(tasks)
            /\ \A i \in 1..Len(tasks) :
                 (tasks[i].status = Completed /\ tasks'[i].status = Pending)
                 => IsUpdateToPending(tasks[i].id)
       /\ last'.op = "add" => tasks'[Len(tasks')].status = Pending]_vars

\* the stored task without a priority key was Completed when it was loaded;
\* an update of its id has made it Pending
C13_Witness ==
  /\ last.op = "update"
  /\ last.saved
  /\ last.arg = <<"2">>
  /\ \E i \in 1..Len(tasks) :
       /\ tasks[i].id = <<"2">>
       /\ "priority" \notin DOMAIN tasks[i]
       /\ tasks[i].status = Pending

\* C14: an update_task of an existing id whose status answer is no status, or
\* whose priority answer is no priority, succeeds and is saved; that field is
\* left as it was (an absent priority stays absent) and every other answer
\* that is valid is stored.
C14_InvalidAnswersIgnored ==
  [][\A id_in \in IdInputs, in \in UpdateInputs :
       LET i == FindFirst(tasks, strip(id_in))
           desc == strip(in.description)
           status == capitalize(strip(in.status))
           priority == capitalize(strip(in.priority))
       IN  (/\ last'.op = "update"
            /\ last'.saved
            /\ last'.arg = strip(id_in)
            /\ update_task(id_in, in.description, in.due, in.status, in.priority)
            /\ i # 0)
           => /\ last'.msg = "Task updated successfully!"
              /\ last'.saved
              /\ file' = [kind |-> "list", items |-> tasks']
              /\ IF status \in {Pending, Completed}
                 THEN tasks'[i].status = status
                 ELSE tasks'[i].status = tasks[i].status
              /\ IF priority \in {Low, Medium, High}
                 THEN "priority" \in DOMAIN tasks'[i] /\ tasks'[i].priority = priority
                 ELSE /\ ("priority" \in DOMAIN tasks'[i]) = ("priority" \in DOMAIN tasks[i])
                      /\ "priority" \in DOMAIN tasks[i]
                           => tasks'[i].priority = tasks[i].priority
              /\ desc # Blank => tasks'[i].description = desc]_vars

\* an update with a non-blank answer left the stored task without a priority
\* key without one and Completed: its priority answer was not a priority
C14_Witness ==
  /\ last.op = "update"
  /\ last.saved
  /\ ~last.blank
  /\ \E i \in 1..Len(tasks) :
       /\ tasks[i].id = last.arg
       /\ "priority" \notin DOMAIN tasks[i]
       /\ tasks[i].status = Completed
       /\ \A j \in 1..(i - 1) : tasks[j].id # last.arg

\* C15: a step of the menu loop changes neither the id nor the title of a
\* task that is in the list before and after it: a delete leaves the remaining
\* tasks as they were, every other step keeps each position's id and title.
C15_IdAndTitleFixed ==
  [][pc = "menu" =>
       IF last'.op = "delete" /\ last'.saved
       THEN OneRemoved(tasks, tasks')
       ELSE /\ Len(tasks') >= Len(tasks)
            /\ \A i \in 1..Len(tasks) :
                 tasks'[i].id = tasks[i].id /\ tasks'[i].title = tasks[i].title]_vars

\* an update that stored a new description left the title of its task alone
C15_Witness ==
  /\ last.op = "update"
  /\ last.saved
  /\ ~last.blank
  /\ \E i \in 1..Len(tasks) :
       /\ tasks[i].id = last.arg
       /\ tasks[i].description = <<"b">>
       /\ tasks[i].title = <<"A", "b">>
       /\ "priority" \in DOMAIN tasks[i]
       /\ tasks[i].priority = High

\* kw occurs in s when letter case is ignored
OccursIgnoringCase(kw, s) ==
  \E off \in 0..(Len(s) - Len(kw)) :
    \A k \in 1..Len(kw) : ToLower(s[off + k]) = ToLower(kw[k])

\* out lists exactly the elements of ts at the positions in keep, in the
\* order of ts
ListsExactly(out, ts, keep) ==
  /\ Len(out) = Cardinality(keep)
  /\ \E f \in [1..Len(out) -> 1..Len(ts)] :
       /\ \A j \in 1..Len(out) : f[j] \in keep /\ out[j] = ts[f[j]]
       /\ \A j, k \in 1..Len(out) : j < k => f[j] < f[k]

\* C16: search_tasks prints exactly the tasks whose title or description
\* contains the keyword when letter case is ignored, in list order; with the
\* empty keyword it prints the whole list.
C16_SearchMatches ==
  last.op = "search" =>
    /\ ListsExactly(last.shown, tasks,
                    {i \in 1..Len(tasks) :
                       \/ OccursIgnoringCase(last.arg, tasks[i].title)
                       \/ OccursIgnoringCase(last.arg, tasks[i].description)})
    /\ last.arg = Blank => last.shown = tasks

\* a search for "B" found a task by the upper-case B inside its description
\* and left out a task that has no b
C16_Witness ==
  /\ last.op = "search"
  /\ last.arg = <<"b">>
  /\ \E j \in 1..Len(last.shown) : last.shown[j].description = <<"a", "B", "c">>
  /\ Len(last.shown) < Len(tasks)

\* C17: filter_tasks by a priority prints exactly the tasks whose priority is
\* that one, in list order, a task without the priority key counting as
\* Medium.
C17_FilterByPriority ==
  (last.op = "filter" /\ last.arg \in {Low, Medium, High}) =>
    ListsExactly(last.shown, tasks,
                 {i \in 1..Len(tasks) :
                    IF "priority" \in DOMAIN tasks[i]
                    THEN tasks[i].priority = last.arg
                    ELSE last.arg = Medium})

\* a filter by Medium printed a task without the priority key and left out a
\* task of another priority
C17_Witness ==
  /\ last.op = "filter"
  /\ last.arg = Medium
  /\ \E j \in 1..Len(last.shown) : "priority" \notin DOMAIN last.shown[j]
  /\ Len(last.shown) < Len(tasks)

\* C18: a successful update_task or mark_completed keeps the number of tasks
\* and the id at every position and leaves every task with another id as it
\* was; a successful delete_task takes out exactly one task, which has the
\* given id, and leaves the others as they were and in their order.
C18_OnlyTargetChanges ==
  [][/\ (last'.op \in {"update", "complete"} /\ last'.saved) =>
          /\ Len(tasks') = Len(tasks)
          /\ \A i \in 1..Len(tasks) :
               /\ tasks'[i].id = tasks[i].id
               /\ tasks[i].id # last'.arg => tasks'[i] = tasks[i]
          /\ UniqueIds(tasks) =>
               Cardinality({i \in 1..Len(tasks) : tasks'[i] # tasks[i]}) <= 1
     /\ (last'.op = "delete" /\ last'.saved) =>
          /\ Len(tasks') = Len(tasks) - 1
          /\ \E k \in 1..Len(tasks) :
               /\ tasks[k].id = last'.arg
               /\ \A j \in 1..Len(tasks') :
                    tasks'[j] = tasks[IF j < k THEN j ELSE j + 1]]_vars

\* a mark_completed of id "2" completed the second task of a list whose
\* first task, with id "1", is still Pending
C18_Witness ==
  /\ last.op = "complete"
  /\ last.saved
  /\ last.arg = <<"2">>
  /\ Len(tasks) = 2
  /\ tasks[1].id = <<"1">>
  /\ tasks[1].status = Pending
  /\ tasks[2].status = Completed

\* C19: view, search, filter, summary, sort and export leave the list, its
\* order and tasks.json as they were; sort prints a new list.
C19_QueriesChangeNothing ==
  [][last'.op \in {"view", "search", "filter", "summary", "sort", "export"} =>
       (tasks' = tasks /\ tasks_type' = tasks_type /\ file' = file)]_vars

\* a sort printed the tasks in another order than the list, which still is
\* what tasks.json holds
C19_Witness ==
  /\ last.op = "sort"
  /\ last.shown # tasks
  /\ file.kind = "list"
  /\ file.items = tasks

\* C20: no step of the menu loop turns a non-empty description into the
\* empty one: after an update_task the description of every task is the one
\* it had or is not empty, and every other step keeps the descriptions of the
\* tasks it keeps.
C20_DescriptionNeverBlanked ==
  [][pc = "menu" =>
       IF last'.op = "delete" /\ last'.saved
       THEN OneRemoved(tasks, tasks')
       ELSE /\ Len(tasks') >= Len(tasks)
            /\ \A i \in 1..Len(tasks) :
                 \/ tasks'[i].description = tasks[i].description
                 \/ /\ last'.op = "update"
                    /\ last'.arg = tasks[i].id
                    /\ tasks'[i].description # Blank
                    /\ \E in \in UpdateInputs :
                         tasks'[i].description = strip(in.description)]_vars

\* an update with a blank description answer made a task Pending and left
\* its description "b" in place
C20_Witness ==
  /\ last.op = "update"
  /\ last.saved
  /\ ~last.blank
  /\ \E i \in 1..Len(tasks) :
       /\ tasks[i].id = last.arg
       /\ tasks[i].description = <<"b">>
       /\ tasks[i].status = Pending
       /\ "priority" \notin DOMAIN tasks[i]

====
